---- MODULE Spec2Model ----
(***************************************************************************)
(* Model of the durable task scheduler of cloudflare/actors                *)
(* (packages/alarms/src/index.ts, class Alarms) together with the parts of *)
(* the owning Actor (packages/core/src/index.ts) that drive it.            *)
(*                                                                         *)
(* Time is Date.now() in milliseconds; the table _actor_alarms stores      *)
(* unix seconds, so every conversion between the two is a floor division   *)
(* by MsPerSec.  The handler alarm() suspends at the await of each         *)
(* callback; it is split into one action per stretch between awaits.       *)
(***************************************************************************)
EXTENDS Integers, FiniteSets, Sequences, TLC

\* ---------------------------------------------------------------- bounds
MaxClockMs == 2000      \* the clock stops advancing here
TickMs == 500           \* granularity of the clock
MaxIds == 2             \* number of ids nanoid() mints in one behaviour
MaxAttempts == 4        \* attempts of one tryWhile() that are followed

\* ------------------------------------------------------ program constants
MsPerSec == 1000        \* Math.floor(Date.now() / 1000), time * 1000
DefaultBaseDelayMs == 100   \* options?.baseDelayMs ?? 100
DefaultMaxDelayMs == 3000   \* options?.maxDelayMs ?? 3000

\* --------------------------------------------------------------- inputs
DateInputs == {1500}                             \* `when` as a Date, ms since epoch
DelayInputs == {0, 1}                            \* `when` as a number of seconds
CronInputs == {"*/2 * * * * *"}                  \* `when` as a cron expression
CallbackNames == {"tick", "legacy"}              \* callback names used by callers
NonStringCallbacks == {"Symbol(tick)"}           \* a callback argument that is no string
PayloadInputs == {<<"array", "1,2">>}            \* payload values: <<JS type, content>>
\* arguments <<<<kind of when, when>>, callback>> of schedule(): a Date, a
\* number or a string with the callback "tick", a Date or a string with the
\* callback "legacy", and the arguments schedule() rejects
WhenInputs ==
    {<<"date", w>> : w \in DateInputs} \cup {<<"number", w>> : w \in DelayInputs}
        \cup {<<"string", w>> : w \in CronInputs}
ScheduleInputs ==
    (WhenInputs \X {"tick"})
        \cup ({a \in WhenInputs : a[1] # "number"} \X (CallbackNames \ {"tick"}))
ScheduleBadInputs == {<<<<"number", 1>>, "Symbol(tick)">>, <<<<"other", 0>>, "tick">>}
Origins == {"request", "callback"}               \* who calls the API: a request or RPC, or a callback of alarm()
MemberSets == {{"tick", "legacy"}, {"tick"}}     \* callable members of a deployed actor class
Ids == 1..MaxIds

\* criteria of getSchedules(): an absent field is {}, a given one {value}
Criteria(id, type, timeRange) == [id |-> id, type |-> type, timeRange |-> timeRange]
TimeRange(start, end) == [start |-> start, end |-> end]
NoCriteria == Criteria({}, {}, {})
RangeInputs ==
    {TimeRange(s, e) : s \in {{}, {1000}, {1500}}, e \in {{}, {1500}, {2000}}}
ListCriteria ==
    {Criteria(i, t, tr) : i \in {{}, {1}}, t \in {{}, {"delayed"}, {"cron"}},
                          tr \in {{}} \cup {{x} : x \in RangeInputs}}

VARIABLES
    rows,       \* table _actor_alarms: a set of row records
    armed,      \* the host alarm: {} when none is set, {ms} otherwise
    clock,      \* Date.now(), in ms
    members,    \* names that resolve to a function on this.parent
    storage,    \* this.storage is defined (the instance was built with a ctx)
    tableExists,\* FALSE after storage.deleteAll() until the next construction
    hasIdentifier, \* the table has the column `identifier`
    blocking,   \* the blockConcurrencyWhile of the constructor is running
    nextId,     \* the next id nanoid() returns
    pc,         \* "idle" | "draining" | "calling": position of alarm();
                \* "hook": Actor.alarm() awaits an overridden onAlarm();
                \* "broken": initialization threw, the host resets the instance
    batch,      \* rows of `result` the for-loop of alarm() has not visited yet
    cur,        \* {row} while its callback is awaited, {} otherwise
    wakeNow,    \* `now` of the running (or last) alarm(), in seconds
    lastOp,     \* the step taken last and the id it was about
    ret,        \* {record} the last step returned to its caller, {} if none: a
                \* Schedule, [value |-> boolean] or [schedules |-> set of Schedule]
    err,        \* message of the error the last step threw to its caller, "" if none
    hist,       \* per id: callback invocations of a one-shot row, rows deleted,
                \* cancelled while no alarm() was running, there when destroy() ran
    cycleLog,   \* rows the running (or just ended) alarm() visited, with the outcome
    atWake,     \* the table as the running (or just ended) alarm() found it
    retry       \* the running (or last) call of tryN / tryWhile / isErrorRetryable

vars == <<rows, armed, clock, members, storage, tableExists, hasIdentifier,
          blocking, nextId, pc, batch, cur, wakeNow, lastOp, ret, err, hist,
          cycleLog, atWake, retry>>

\* -------------------------------------------------------------- helpers
Min(S) == CHOOSE x \in S : \A y \in S : x <= y

RowIds(rs) == {r.id : r \in rs}

\* Math.floor(ms / 1000)
FloorSec(ms) == ms \div MsPerSec

\* period in seconds of a cron expression with a seconds field
\* (cron-schedule: "*/n * * * * *" matches the seconds divisible by n)
CronPeriod(cron) == IF cron = "*/2 * * * * *" THEN 2 ELSE 1

\* variant: the next occurrence at or after now instead of strictly after it
getNextCronTimeInclusive(cron, nowMs) ==
    ((FloorSec(nowMs) + CronPeriod(cron) - 1) \div CronPeriod(cron))
        * CronPeriod(cron) * MsPerSec

\* getNextCronTime(cron): parseCronExpression(cron).getNextDate(), the first
\* matching whole second strictly after the second Date.now() lies in; in ms
getNextCronTime(cron, nowMs) ==
    ((FloorSec(nowMs) \div CronPeriod(cron)) + 1) * CronPeriod(cron) * MsPerSec

\* JSON.stringify(payload): the text stored in the column `payload`
JSONstringify(v) ==
    CASE v[1] = "array"  -> "[1,2]"
      [] v[1] = "string" -> "'p'"
      [] OTHER           -> "null"

\* variant: the stored text is handed back as a string, unparsed
JSONparseNot(text) == <<"string", text>>

\* JSON.parse(row.payload)
JSONparse(text) ==
    CASE text = "[1,2]" -> <<"array", "1,2">>
      [] text = "'p'"   -> <<"string", "p">>
      [] OTHER          -> <<"null", "">>

\* a row of _actor_alarms; NULL columns are 0 (delayInSeconds) and "" (cron);
\* created_at is the column's default unixepoch() at the time of the INSERT
Row(id, callback, payload, type, time, delay, cron, createdAt) ==
    [id |-> id, callback |-> callback, payload |-> payload, type |-> type,
     time |-> time, delayInSeconds |-> delay, cron |-> cron,
     identifier |-> "default", created_at |-> createdAt]

\* variant: the statement replaces the row stored last, whatever its id
UpsertOverLast(rs, rec) == {r \in rs : r.id # rec.id /\ r.id # rec.id - 1} \cup {rec}

\* INSERT OR REPLACE INTO _actor_alarms: the id is the primary key
Upsert(rs, rec) == {r \in rs : r.id # rec.id} \cup {rec}

\* variant: the statement matches no row
DeleteByIdNoMatch(rs, id) == rs

\* DELETE FROM _actor_alarms WHERE id = ?
DeleteById(rs, id) == {r \in rs : r.id # id}

\* variant: the row is written anew, which resets created_at as well
UpdateTimeAsInsert(rs, id, time) ==
    {IF r.id = id THEN [r EXCEPT !.time = time, !.created_at = time] ELSE r : r \in rs}

\* UPDATE _actor_alarms SET time = ? WHERE id = ?
UpdateTime(rs, id, time) ==
    {IF r.id = id THEN [r EXCEPT !.time = time] ELSE r : r \in rs}

\* variant: rows of the second after now are fetched as well
DueRowsRoundedUp(rs, nowSec) == {r \in rs : r.time <= nowSec + 1}

\* SELECT * FROM _actor_alarms WHERE time <= now
DueRows(rs, nowSec) == {r \in rs : r.time <= nowSec}

\* _scheduleNextAlarm: SELECT time ... WHERE time > now ORDER BY time LIMIT 1,
\* then setAlarm(time * 1000) when a row came back; otherwise nothing is done
\* variant: a deadline that is armed already is kept
scheduleNextAlarmKeep(al, rs, nowMs) ==
    LET future == {r.time : r \in {x \in rs : x.time > FloorSec(nowMs)}}
    IN  IF future = {} \/ al # {} THEN al ELSE {Min(future) * MsPerSec}

\* variant: setting the deadline that is armed already clears it
scheduleNextAlarmToggle(al, rs, nowMs) ==
    LET future == {r.time : r \in {x \in rs : x.time > FloorSec(nowMs)}}
    IN  IF future = {} THEN al
        ELSE IF al = {Min(future) * MsPerSec} THEN {}
        ELSE {Min(future) * MsPerSec}

scheduleNextAlarm(al, rs, nowMs) ==
    LET future == {r.time : r \in {x \in rs : x.time > FloorSec(nowMs)}}
    IN  IF future = {} THEN al ELSE {Min(future) * MsPerSec}

\* variant: only rows of type 'scheduled' are deleted, the rest is re-timed
ConsumeScheduledOnly(rs, row, nowMs) ==
    IF row.type # "scheduled"
    THEN UpdateTime(rs, row.id, FloorSec(getNextCronTime(row.cron, nowMs)))
    ELSE DeleteById(rs, row.id)

\* variant: every row is deleted after its callback, cron rows included
ConsumeDeleteAll(rs, row, nowMs) == DeleteById(rs, row.id)

\* variant: a cron row is advanced by one period from the time it had
ConsumeFromFireAt(rs, row, nowMs) ==
    IF row.type = "cron"
    THEN UpdateTime(rs, row.id, row.time + CronPeriod(row.cron))
    ELSE DeleteById(rs, row.id)

\* the consume step of alarm() after a callback was awaited
Consume(rs, row, nowMs) ==
    IF row.type = "cron"
    THEN UpdateTime(rs, row.id, FloorSec(getNextCronTime(row.cron, nowMs)))
    ELSE DeleteById(rs, row.id)

\* this.parent[row.callback] is truthy
Resolves(ms, callback) == callback \in ms

\* typeof callback
TypeOf(callback) == IF callback \in NonStringCallbacks THEN "symbol" ELSE "string"

Op(name, id) == [op |-> name, id |-> id]

\* a call of the public API: who made it and with which arguments
ApiOp(name, id, origin, args) ==
    [op |-> name, id |-> id, origin |-> origin, args |-> args]

\* no call of the retry helpers has been made
RetryIdle ==
    [pc |-> "idle", fn |-> "", args |-> <<>>, n |-> 0, isRetryable |-> "",
     baseDelayMs |-> 0, maxDelayMs |-> 0, attempt |-> 0, invoked |-> <<>>,
     thrown |-> <<>>, verdict |-> {}, delay |-> 0, outcome |-> "",
     result |-> {}, error |-> <<>>]

NoteDeleted(h, rs, id) ==
    IF id \in RowIds(rs) THEN [h EXCEPT ![id].deleted = @ + 1] ELSE h

\* ---------------------------------------------------------------- Init
\* an instance built with a ctx has run its constructor on empty storage; one
\* built without a ctx (new Alarms(undefined, parent)) has no storage at all
Init ==
    /\ rows = {}
    /\ armed = {}
    /\ clock = 0
    /\ members \in MemberSets
    /\ storage \in BOOLEAN
    /\ tableExists = storage
    /\ hasIdentifier = storage
    /\ blocking = FALSE
    /\ nextId = 1
    /\ pc = "idle"
    /\ batch = {}
    /\ cur = {}
    /\ wakeNow = 0
    /\ lastOp = Op("construct", 0)
    /\ ret = {}
    /\ err = ""
    /\ hist = [i \in Ids |-> [invoked |-> 0, deleted |-> 0, cancelledIdle |-> FALSE, destroyed |-> FALSE]]
    /\ cycleLog = {}
    /\ atWake = {}
    /\ retry = RetryIdle

\* ------------------------------------------------------------- actions
\* cycleLog, atWake and wakeNow describe the running alarm() and stay readable
\* in the state in which it has just returned; the step after that drops them
Forget ==
    IF pc = "idle" THEN cycleLog' = {} /\ atWake' = {} /\ wakeNow' = 0
                   ELSE UNCHANGED <<cycleLog, atWake, wakeNow>>

\* time passes
Tick ==
    /\ clock + TickMs <= MaxClockMs
    /\ clock' = clock + TickMs
    /\ lastOp' = Op("tick", 0)
    /\ ret' = {}
    /\ err' = ""
    /\ Forget
    /\ UNCHANGED <<rows, armed, members, storage, tableExists, hasIdentifier,
                   blocking, nextId, pc, batch, cur, hist>>
    /\ UNCHANGED retry

\* variant: requests are let in while the constructor still runs
MayBeginUnblocked(origin) ==
    IF origin = "callback" THEN pc = "calling" /\ blocking
    ELSE pc \in {"idle", "calling", "hook"}

\* when a call of the API can begin: from a request or RPC between the awaits
\* of the instance (of a callback, or of the hook onAlarm, which may make such
\* a call itself), but not while the constructor's blockConcurrencyWhile is
\* running; from a callback while alarm() awaits it (outside the constructor
\* such a call acts like a request that arrives during the await, so it is
\* told apart only while requests are held back)
MayBegin(origin) ==
    IF origin = "callback" THEN pc = "calling" /\ blocking
    ELSE pc \in {"idle", "calling", "hook"} /\ ~blocking

\* this.sql: throws without storage; the statement fails without the table
SqlFailure ==
    IF ~storage THEN "Storage not initialized"
    ELSE IF ~tableExists THEN "no such table: _actor_alarms"
    ELSE ""

\* a call that throws to its caller and changes nothing
Throws(message) ==
    /\ err' = message
    /\ ret' = {}
    /\ UNCHANGED <<rows, armed, nextId, hist>>

\* variant: only the type of the callback argument is checked
ScheduleErrorNoLookup(ms, kind, callback) ==
    IF TypeOf(callback) # "string" THEN "Callback must be a string"
    ELSE IF kind \in {"date", "number", "string"} THEN SqlFailure
    ELSE "Invalid schedule type"

\* schedule(): the error it throws, "" when it goes through
ScheduleError(ms, kind, callback) ==
    IF TypeOf(callback) # "string" THEN "Callback must be a string"
    ELSE IF ~Resolves(ms, callback) THEN "this.parent.callback is not a function"
    ELSE IF kind \in {"date", "number", "string"} THEN SqlFailure
    ELSE "Invalid schedule type"

\* variant: the delay is taken as the time itself, now is not added
ScheduleRowNoNow(id, kind, when, callback, payload) ==
    CASE kind = "date"   -> Row(id, callback, JSONstringify(payload), "scheduled",
                                FloorSec(when), 0, "", FloorSec(clock))
      [] kind = "number" -> Row(id, callback, JSONstringify(payload), "delayed",
                                FloorSec(when * MsPerSec), when, "", FloorSec(clock))
      [] kind = "string" -> Row(id, callback, JSONstringify(payload), "cron",
                                FloorSec(getNextCronTime(when, clock)), 0, when, FloorSec(clock))

\* schedule(): the row it inserts
ScheduleRow(id, kind, when, callback, payload) ==
    CASE kind = "date"   -> Row(id, callback, JSONstringify(payload), "scheduled",
                                FloorSec(when), 0, "", FloorSec(clock))
      [] kind = "number" -> Row(id, callback, JSONstringify(payload), "delayed",
                                FloorSec(clock + when * MsPerSec), when, "", FloorSec(clock))
      [] kind = "string" -> Row(id, callback, JSONstringify(payload), "cron",
                                FloorSec(getNextCronTime(when, clock)), 0, when, FloorSec(clock))

\* schedule(): the object it returns, built from its arguments and not read
\* back from the table: it has the payload as given and no created_at
ScheduleResult(rec, payload) ==
    [id |-> rec.id, callback |-> rec.callback, payload |-> payload,
     type |-> rec.type, time |-> rec.time, delayInSeconds |-> rec.delayInSeconds,
     cron |-> rec.cron, identifier |-> rec.identifier]

\* schedule(when, callback, payload)
Schedule(origin, kind, when, callback, payload) ==
    /\ MayBegin(origin)
    /\ nextId <= MaxIds
    /\ lastOp' = ApiOp("schedule", nextId, origin,
                       [kind |-> kind, when |-> when, callback |-> callback,
                        payload |-> payload])
    /\ IF ScheduleError(members, kind, callback) # ""
       THEN Throws(ScheduleError(members, kind, callback))
       ELSE LET rec == ScheduleRow(nextId, kind, when, callback, payload)
            IN  /\ rows' = Upsert(rows, rec)
                /\ armed' = scheduleNextAlarm(armed, rows', clock)
                /\ ret' = {ScheduleResult(rec, payload)}
                /\ err' = ""
                /\ nextId' = nextId + 1
                /\ hist' = hist
    /\ Forget
    /\ UNCHANGED <<clock, members, storage, tableExists, hasIdentifier,
                   blocking, pc, batch, cur>>
    /\ UNCHANGED retry

\* cancelSchedule(id)
Cancel(origin, id) ==
    /\ MayBegin(origin)
    /\ lastOp' = ApiOp("cancel", id, origin, [id |-> id])
    /\ IF SqlFailure # ""
       THEN Throws(SqlFailure)
       ELSE /\ rows' = DeleteById(rows, id)
            /\ armed' = scheduleNextAlarm(armed, rows', clock)
            /\ ret' = {[value |-> TRUE]}
            /\ err' = ""
            /\ hist' = [NoteDeleted(hist, rows, id) EXCEPT
                          ![id].cancelledIdle = @ \/ (pc = "idle" /\ id \in RowIds(rows))]
            /\ nextId' = nextId
    /\ Forget
    /\ UNCHANGED <<clock, members, storage, tableExists, hasIdentifier,
                   blocking, pc, batch, cur>>
    /\ UNCHANGED retry

\* variant: the row that is read is taken out of the table
GetTakes(origin, id) ==
    /\ MayBegin(origin)
    /\ lastOp' = ApiOp("get", id, origin, [id |-> id])
    /\ IF SqlFailure # ""
       THEN Throws(SqlFailure)
       ELSE IF id \notin RowIds(rows)
       THEN Throws("TypeError: cannot read properties of undefined")
       ELSE /\ ret' = {[r EXCEPT !.payload = JSONparse(r.payload)] :
                          r \in {x \in rows : x.id = id}}
            /\ err' = ""
            /\ rows' = DeleteById(rows, id)
            /\ UNCHANGED <<armed, nextId, hist>>
    /\ Forget
    /\ UNCHANGED <<clock, members, storage, tableExists, hasIdentifier,
                   blocking, pc, batch, cur, retry>>

\* getSchedule(id): SELECT * ... WHERE id = ?, then result[0].payload is read
Get(origin, id) ==
    /\ MayBegin(origin)
    /\ lastOp' = ApiOp("get", id, origin, [id |-> id])
    /\ IF SqlFailure # ""
       THEN Throws(SqlFailure)
       ELSE IF id \notin RowIds(rows)
       THEN Throws("TypeError: cannot read properties of undefined")
       ELSE /\ ret' = {[r EXCEPT !.payload = JSONparse(r.payload)] :
                          r \in {x \in rows : x.id = id}}
            /\ err' = ""
            /\ UNCHANGED <<rows, armed, nextId, hist>>
    /\ Forget
    /\ UNCHANGED <<clock, members, storage, tableExists, hasIdentifier,
                   blocking, pc, batch, cur>>
    /\ UNCHANGED retry

\* variant: the end of the time range is exclusive
getSchedulesExclusiveEnd(rs, c) ==
    {[r EXCEPT !.payload = JSONparse(r.payload)] :
        r \in {x \in rs :
                 /\ (c.id = {} \/ x.id \in c.id)
                 /\ (c.type = {} \/ x.type \in c.type)
                 /\ \A tr \in c.timeRange :
                      /\ \A st \in tr.start : x.time >= FloorSec(st)
                      /\ \A en \in tr.end : x.time < FloorSec(en)}}

\* getSchedules(criteria): SELECT * ... WHERE 1=1 [AND id = ?] [AND type = ?]
\* [AND time >= ? AND time <= ?] with Math.floor(getTime() / 1000) of start
\* (default new Date(0)) and of end (default new Date(999999999999999), which
\* is after every time of the model); the payload of each row is parsed
getSchedules(rs, c) ==
    {[r EXCEPT !.payload = JSONparse(r.payload)] :
        r \in {x \in rs :
                 /\ (c.id = {} \/ x.id \in c.id)
                 /\ (c.type = {} \/ x.type \in c.type)
                 /\ \A tr \in c.timeRange :
                      /\ \A st \in tr.start : x.time >= FloorSec(st)
                      /\ \A en \in tr.end : x.time <= FloorSec(en)}}

\* getSchedules(criteria): without storage it returns [], it does not throw
List(origin, c) ==
    /\ MayBegin(origin)
    /\ lastOp' = ApiOp("list", 0, origin, c)
    /\ IF ~storage
       THEN /\ ret' = {[schedules |-> {}]}
            /\ err' = ""
            /\ UNCHANGED <<rows, armed, nextId, hist>>
       ELSE IF SqlFailure # ""
       THEN Throws(SqlFailure)
       ELSE /\ ret' = {[schedules |-> getSchedules(rows, c)]}
            /\ err' = ""
            /\ UNCHANGED <<rows, armed, nextId, hist>>
    /\ Forget
    /\ UNCHANGED <<clock, members, storage, tableExists, hasIdentifier,
                   blocking, pc, batch, cur>>
    /\ UNCHANGED retry

\* variant: the loop of alarm() runs over every row of the table
AlarmBeginAllRows(name) ==
    /\ wakeNow' = FloorSec(clock)
    /\ batch' = rows'
    /\ cycleLog' = {}
    /\ atWake' = rows'
    /\ pc' = "draining"
    /\ lastOp' = Op(name, 0)
    /\ ret' = {}
    /\ err' = ""

\* variant: when no row is due the rows that come next are fetched
AlarmBeginNextRows(name) ==
    /\ wakeNow' = FloorSec(clock)
    /\ batch' = IF DueRows(rows', FloorSec(clock)) # {}
                THEN DueRows(rows', FloorSec(clock))
                ELSE {r \in rows' : \A x \in rows' : r.time <= x.time}
    /\ cycleLog' = {}
    /\ atWake' = rows'
    /\ pc' = "draining"
    /\ lastOp' = Op(name, 0)
    /\ ret' = {}
    /\ err' = ""

\* alarm(): now and the due query, up to the first await; the query reads the
\* table as the caller's statements before it have left it (rows')
AlarmBegin(name) ==
    /\ wakeNow' = FloorSec(clock)
    /\ batch' = DueRows(rows', FloorSec(clock))
    /\ cycleLog' = {}
    /\ atWake' = rows'
    /\ pc' = "draining"
    /\ lastOp' = Op(name, 0)
    /\ ret' = {}
    /\ err' = ""

\* the host fires the armed alarm, which clears it, and calls Actor.alarm()
\* of an actor that has the default onAlarm(), a no-op: nothing runs between
\* the call and alarm() of Alarms
HostWake ==
    /\ pc = "idle"
    /\ armed # {}
    /\ \A a \in armed : a <= clock
    /\ armed' = {}
    /\ rows' = rows
    /\ AlarmBegin("wake")
    /\ UNCHANGED <<clock, members, storage, tableExists, hasIdentifier,
                   blocking, nextId, cur, hist>>
    /\ UNCHANGED retry

\* what a row of a table without the column identifier has in its place
NoColumn == "(no column)"

\* variant: the column is added without a default, the stored rows keep none
AddColumnNoDefault(rs) == rs

\* ALTER TABLE _actor_alarms ADD COLUMN identifier TEXT DEFAULT 'default':
\* every row stored before reads 'default' in the new column
AddColumn(rs) == {[r EXCEPT !.identifier = "default"] : r \in rs}

\* the instance is evicted (or reset) and constructed again, possibly from a
\* new deployment of the class.  Inside blockConcurrencyWhile the constructor
\* creates the table if it is missing (without the column identifier), probes
\* the column, adds it if the probe failed (a failure of ALTER TABLE is logged
\* and swallowed), and runs alarm() to catch up; the query of alarm() names
\* the column identifier and throws if the table has none
Construct(ms, alterOk) ==
    /\ storage
    /\ pc \in {"idle", "broken"}
    /\ members' = ms
    /\ tableExists' = TRUE
    /\ hasIdentifier' = IF tableExists /\ hasIdentifier THEN TRUE ELSE alterOk
    /\ rows' = IF (tableExists /\ hasIdentifier) \/ ~alterOk THEN rows ELSE AddColumn(rows)
    /\ IF hasIdentifier'
       THEN /\ AlarmBegin("construct")
            /\ blocking' = TRUE
       ELSE /\ pc' = "broken"
            /\ err' = "no such column: identifier"
            /\ ret' = {}
            /\ lastOp' = Op("construct", 0)
            /\ blocking' = FALSE
            /\ batch' = {}
            /\ cycleLog' = {}
            /\ atWake' = {}
            /\ wakeNow' = 0
    /\ UNCHANGED <<armed, clock, storage, nextId, cur, hist>>
    /\ UNCHANGED retry

\* for (const row of result): the callback does not resolve -> continue
SkipRow ==
    /\ pc = "draining"
    /\ \E row \in batch :
        /\ ~Resolves(members, row.callback)
        /\ batch' = batch \ {row}
        /\ cycleLog' = cycleLog \cup {[id |-> row.id, type |-> row.type, outcome |-> "unresolved"]}
        /\ lastOp' = Op("skip", row.id)
    /\ ret' = {}
    /\ err' = ""
    /\ UNCHANGED <<rows, armed, clock, members, storage, tableExists,
                   hasIdentifier, blocking, nextId, pc, cur, wakeNow, hist, atWake>>
    /\ UNCHANGED retry

\* variant: the row stays in the batch after its callback was invoked
CallRowKeepsBatch ==
    /\ pc = "draining"
    /\ \E row \in batch :
        /\ Resolves(members, row.callback)
        /\ cur' = {row}
        /\ hist' = IF row.type = "cron" THEN hist
                    ELSE [hist EXCEPT ![row.id].invoked = @ + 1]
        /\ lastOp' = Op("call", row.id)
    /\ pc' = "calling"
    /\ ret' = {}
    /\ err' = ""
    /\ UNCHANGED <<rows, armed, clock, members, storage, tableExists,
                   hasIdentifier, blocking, nextId, wakeNow, cycleLog, atWake,
                   batch, retry>>

\* for (const row of result): the callback resolves and is invoked (await)
CallRow ==
    /\ pc = "draining"
    /\ \E row \in batch :
        /\ Resolves(members, row.callback)
        /\ batch' = batch \ {row}
        /\ cur' = {row}
        /\ hist' = IF row.type = "cron" THEN hist
                    ELSE [hist EXCEPT ![row.id].invoked = @ + 1]
        /\ lastOp' = Op("call", row.id)
    /\ pc' = "calling"
    /\ ret' = {}
    /\ err' = ""
    /\ UNCHANGED <<rows, armed, clock, members, storage, tableExists,
                   hasIdentifier, blocking, nextId, wakeNow, cycleLog, atWake>>
    /\ UNCHANGED retry

\* the awaited callback settles (returns or throws: caught and logged), then
\* the row is consumed according to its type.  The DELETE or UPDATE is outside
\* the try/catch: without the table (destroy() ran during the await) it
\* throws and alarm() rejects with the rest of the batch undispatched; inside
\* the constructor the rejection of blockConcurrencyWhile resets the instance.
\* (The retries of a failed alarm() by the host find no table, or after a new
\* construction an empty one, and are not modelled.)
CallbackReturn(outcome) ==
    /\ pc = "calling"
    /\ \E row \in cur :
        IF SqlFailure # ""
        THEN /\ err' = SqlFailure
             /\ lastOp' = Op("abort", row.id)
             /\ pc' = IF blocking THEN "broken" ELSE "idle"
             /\ blocking' = FALSE
             /\ batch' = {}
             /\ cycleLog' = {}
             /\ atWake' = {}
             /\ wakeNow' = 0
             /\ UNCHANGED <<rows, hist>>
        ELSE /\ rows' = Consume(rows, row, clock)
             /\ hist' = IF row.type = "cron" THEN hist ELSE NoteDeleted(hist, rows, row.id)
             /\ cycleLog' = cycleLog \cup {[id |-> row.id, type |-> row.type, outcome |-> outcome]}
             /\ lastOp' = Op("consume", row.id)
             /\ pc' = "draining"
             /\ err' = ""
             /\ UNCHANGED <<blocking, batch, wakeNow, atWake>>
    /\ cur' = {}
    /\ ret' = {}
    /\ UNCHANGED <<armed, clock, members, storage, tableExists, hasIdentifier,
                   nextId>>
    /\ UNCHANGED retry

\* variant: alarm() returns after the loop without _scheduleNextAlarm()
AlarmEndNoRearm ==
    /\ pc = "draining"
    /\ batch = {}
    /\ pc' = "idle"
    /\ blocking' = FALSE
    /\ lastOp' = Op("wakeEnd", 0)
    /\ ret' = {}
    /\ err' = ""
    /\ UNCHANGED <<rows, armed, clock, members, storage, tableExists,
                   hasIdentifier, nextId, batch, cur, wakeNow, hist, cycleLog,
                   atWake, retry>>

\* after the loop: await this._scheduleNextAlarm()
AlarmEnd ==
    /\ pc = "draining"
    /\ batch = {}
    /\ armed' = scheduleNextAlarm(armed, rows, clock)
    /\ pc' = "idle"
    /\ blocking' = FALSE
    /\ lastOp' = Op("wakeEnd", 0)
    /\ ret' = {}
    /\ err' = ""
    /\ UNCHANGED <<rows, clock, members, storage, tableExists, hasIdentifier,
                   nextId, batch, cur, wakeNow, hist, cycleLog, atWake>>
    /\ UNCHANGED retry

\* variant: destroy() only deletes the alarm
DestroyAlarmOnly(origin) ==
    /\ storage
    /\ MayBegin(origin)
    /\ armed' = {}
    /\ lastOp' = Op("destroy", 0)
    /\ ret' = {}
    /\ err' = ""
    /\ Forget
    /\ UNCHANGED <<rows, clock, members, storage, tableExists, hasIdentifier,
                   blocking, nextId, pc, batch, cur, hist>>
    /\ UNCHANGED retry

\* Actor.destroy(): storage.deleteAlarm() and storage.deleteAll(), which
\* drops the table with everything else the instance stored.  It is a public
\* method: a request can call it while alarm() awaits a callback, and so can
\* the callback itself.  Both storage calls hold the input gate, so nothing
\* runs between them.
Destroy(origin) ==
    /\ storage
    /\ MayBegin(origin)
    /\ armed' = {}
    /\ rows' = {}
    /\ tableExists' = FALSE
    /\ hasIdentifier' = FALSE
    /\ hist' = [i \in Ids |->
                  IF i \in RowIds(rows \cup batch \cup cur)
                  THEN [hist[i] EXCEPT !.destroyed = TRUE,
                                       !.deleted = IF i \in RowIds(rows) THEN @ + 1 ELSE @]
                  ELSE hist[i]]
    /\ lastOp' = Op("destroy", 0)
    /\ ret' = {}
    /\ err' = ""
    /\ Forget
    /\ UNCHANGED <<clock, members, storage, blocking, nextId, pc, batch, cur>>
    /\ UNCHANGED retry

\* the operations that change the state; the read operations are in NextRead
Next ==
    \/ Tick
    \/ \E o \in Origins, a \in ScheduleInputs \cup ScheduleBadInputs, p \in PayloadInputs :
          Schedule(o, a[1][1], a[1][2], a[2], p)
    \/ \E o \in Origins, id \in Ids : Cancel(o, id)
    \/ HostWake
    \/ \E ms \in MemberSets, alterOk \in BOOLEAN : Construct(ms, alterOk)
    \/ SkipRow
    \/ CallRow
    \/ \E o \in {"ok", "threw"} : CallbackReturn(o)
    \/ AlarmEnd
    \/ \E o \in Origins : Destroy(o)

Spec == Init /\ [][Next]_vars

\* the read operations getSchedule() and getSchedules() among the operations
\* that change what they read: schedule (of tasks whose callback resolves),
\* cancel, time, wakes, constructions and destroy()
ResolvingInputs == {a \in ScheduleInputs : a[2] = "tick"}

NextRead ==
    \/ Tick
    \/ \E o \in Origins, a \in ResolvingInputs, p \in PayloadInputs :
          Schedule(o, a[1][1], a[1][2], a[2], p)
    \/ \E o \in Origins, id \in Ids : Cancel(o, id)
    \/ \E o \in Origins, id \in Ids : Get(o, id)
    \/ \E o \in Origins : List(o, NoCriteria)
    \/ HostWake
    \/ \E ms \in MemberSets, alterOk \in BOOLEAN : Construct(ms, alterOk)
    \/ CallRow
    \/ \E o \in {"ok", "threw"} : CallbackReturn(o)
    \/ AlarmEnd
    \/ \E o \in Origins : Destroy(o)

SpecRead == Init /\ [][NextRead]_vars

\* where alarm() is in its loop
cycleVars == <<pc, batch, cur>>

\* alarm() runs on: its loop takes its next step, an awaited callback settles
\* (callbacks are assumed to terminate) and the final _scheduleNextAlarm() runs
Fairness ==
    /\ WF_cycleVars(SkipRow)
    /\ WF_cycleVars(CallRow)
    /\ WF_cycleVars(\E o \in {"ok", "threw"} : CallbackReturn(o))
    /\ WF_cycleVars(AlarmEnd)

\* what runs around a wake cycle: time, schedule calls (of callbacks and of
\* requests), the wakes and constructions that start a cycle, and destroy()
NextCycle ==
    \/ Tick
    \/ \E o \in Origins, a \in ScheduleInputs, p \in PayloadInputs :
          Schedule(o, a[1][1], a[1][2], a[2], p)
    \/ HostWake
    \/ \E ms \in MemberSets, alterOk \in BOOLEAN : Construct(ms, alterOk)
    \/ SkipRow
    \/ CallRow
    \/ \E o \in {"ok", "threw"} : CallbackReturn(o)
    \/ AlarmEnd
    \/ \E o \in Origins : Destroy(o)

SpecFair == Init /\ [][NextCycle]_vars /\ Fairness

\* the host and the clock do their part as well: time advances (up to the end
\* of the modelled time) and an armed alarm whose time has come is delivered
FairnessWake ==
    /\ Fairness
    /\ WF_vars(Tick)
    /\ WF_vars(HostWake)

\* a wake cycle with everything that decides whether a row is woken for:
\* schedule, cancel, time, wakes, constructions and destroy()
NextWake ==
    \/ NextCycle
    \/ \E o \in Origins, id \in Ids : Cancel(o, id)

SpecWake == Init /\ [][NextWake]_vars /\ FairnessWake

\* --------------------------------------- cron tasks that fall behind
\* cron expressions of every second and of every other second: of the first,
\* several occurrences pass within the modelled time
CatchUpCronInputs == {"* * * * * *"} \cup CronInputs

\* cron tasks, the wakes of the host, and constructions of an instance that
\* was unloaded while occurrences passed
NextCron ==
    \/ Tick
    \/ \E o \in Origins, c \in CatchUpCronInputs, p \in PayloadInputs :
          Schedule(o, "string", c, "tick", p)
    \/ HostWake
    \/ \E ms \in MemberSets : Construct(ms, TRUE)
    \/ CallRow
    \/ \E o \in {"ok", "threw"} : CallbackReturn(o)
    \/ AlarmEnd

SpecCron == Init /\ [][NextCron]_vars

\* ------------------------------------ an actor that overrides onAlarm()
\* the host fires the armed alarm, which clears it, and calls Actor.alarm(),
\* which awaits the hook first
ActorAlarm ==
    /\ pc = "idle"
    /\ armed # {}
    /\ \A a \in armed : a <= clock
    /\ armed' = {}
    /\ pc' = "hook"
    /\ lastOp' = Op("onAlarm", 0)
    /\ ret' = {}
    /\ err' = ""
    /\ Forget
    /\ UNCHANGED <<rows, clock, members, storage, tableExists, hasIdentifier,
                   blocking, nextId, batch, cur, hist, retry>>

\* onAlarm() returns: return this.alarms.alarm(alarmInfo)
OnAlarmReturns ==
    /\ pc = "hook"
    /\ rows' = rows
    /\ AlarmBegin("wake")
    /\ UNCHANGED <<armed, clock, members, storage, tableExists, hasIdentifier,
                   blocking, nextId, cur, hist, retry>>

\* variant: the error of the hook is caught and alarm() of Alarms runs
OnAlarmThrowsCaught ==
    /\ pc = "hook"
    /\ rows' = rows
    /\ AlarmBegin("wakeFailed")
    /\ UNCHANGED <<armed, clock, members, storage, tableExists, hasIdentifier,
                   blocking, nextId, cur, hist, retry>>

\* onAlarm() throws: the await rejects and Actor.alarm() rejects with it.
\* (The host's retries of a failed alarm() are not modelled.)
OnAlarmThrows ==
    /\ pc = "hook"
    /\ pc' = "idle"
    /\ err' = "onAlarm threw"
    /\ lastOp' = Op("wakeFailed", 0)
    /\ ret' = {}
    /\ UNCHANGED <<rows, armed, clock, members, storage, tableExists,
                   hasIdentifier, blocking, nextId, batch, cur, wakeNow, hist,
                   cycleLog, atWake, retry>>

NextActor ==
    \/ Tick
    \/ \E o \in Origins, a \in ResolvingInputs, p \in PayloadInputs :
          Schedule(o, a[1][1], a[1][2], a[2], p)
    \/ \E o \in Origins, id \in Ids : Cancel(o, id)
    \/ ActorAlarm
    \/ OnAlarmReturns
    \/ OnAlarmThrows
    \/ \E ms \in MemberSets : Construct(ms, TRUE)
    \/ CallRow
    \/ \E o \in {"ok", "threw"} : CallbackReturn(o)
    \/ AlarmEnd

SpecActor == Init /\ [][NextActor]_vars

\* ------------------------------- construction on storage that has a table
\* rows of every type as an earlier construction, or an earlier version of the
\* class whose table had no column identifier, has left them
StoredRowsOf(i, identifier) ==
    {[r EXCEPT !.identifier = identifier] :
        r \in {Row(i, "tick", JSONstringify(<<"array", "1,2">>), "scheduled", 1, 0, "", 0),
               Row(i, "tick", JSONstringify(<<"array", "1,2">>), "delayed", 0, 0, "", 0),
               Row(i, "tick", JSONstringify(<<"array", "1,2">>), "delayed", 2, 1, "", 1),
               Row(i, "legacy", JSONstringify(<<"array", "1,2">>), "cron", 2, 0, "*/2 * * * * *", 0)}}

StoredTables(identifier) ==
    {t \in SUBSET (UNION {StoredRowsOf(i, identifier) : i \in Ids}) :
        \A r1 \in t, r2 \in t : r1.id = r2.id => r1 = r2}

\* this.actorName of the instance that stored the rows of a table with the
\* column identifier
NamedActor == "actor-1"

\* no instance is in memory (pc = "broken": the next step is a construction);
\* its storage holds a table with or without the column identifier
InitMigrate ==
    /\ hasIdentifier \in BOOLEAN
    /\ rows \in StoredTables(IF hasIdentifier THEN NamedActor ELSE NoColumn)
    /\ armed = {}
    /\ clock = 0
    /\ members \in MemberSets
    /\ storage = TRUE
    /\ tableExists = TRUE
    /\ blocking = FALSE
    /\ nextId = MaxIds + 1
    /\ pc = "broken"
    /\ batch = {}
    /\ cur = {}
    /\ wakeNow = 0
    /\ lastOp = Op("evict", 0)
    /\ ret = {}
    /\ err = ""
    /\ hist = [i \in Ids |-> [invoked |-> 0, deleted |-> 0, cancelledIdle |-> FALSE, destroyed |-> FALSE]]
    /\ cycleLog = {}
    /\ atWake = {}
    /\ retry = RetryIdle

NextMigrate ==
    \/ Tick
    \/ \E ms \in MemberSets, alterOk \in BOOLEAN : Construct(ms, alterOk)
    \/ SkipRow
    \/ CallRow
    \/ \E o \in {"ok", "threw"} : CallbackReturn(o)
    \/ AlarmEnd
    \/ HostWake
    \/ \E o \in Origins, id \in Ids : Get(o, id)
    \/ \E o \in Origins : List(o, NoCriteria)

SpecMigrate == InitMigrate /\ [][NextMigrate]_vars

\* ----------------------------------------- getSchedules() on its own
\* tables of rows of every type at times around the bounds of RangeInputs
ListRowsOf(i) ==
    {Row(i, "tick", JSONstringify(<<"array", "1,2">>), "scheduled", 1, 0, "", 0),
     Row(i, "tick", JSONstringify(<<"array", "1,2">>), "delayed", 0, 0, "", 0),
     Row(i, "tick", JSONstringify(<<"array", "1,2">>), "delayed", 2, 1, "", 0),
     Row(i, "tick", JSONstringify(<<"array", "1,2">>), "cron", 2, 0, "*/2 * * * * *", 0)}

ListTables ==
    {t \in SUBSET (UNION {ListRowsOf(i) : i \in Ids}) :
        \A r1 \in t, r2 \in t : r1.id = r2.id => r1 = r2}

InitList ==
    /\ rows \in ListTables
    /\ armed = {}
    /\ clock = 0
    /\ members = {"tick"}
    /\ storage = TRUE
    /\ tableExists = TRUE
    /\ hasIdentifier = TRUE
    /\ blocking = FALSE
    /\ nextId = MaxIds + 1
    /\ pc = "idle"
    /\ batch = {}
    /\ cur = {}
    /\ wakeNow = 0
    /\ lastOp = Op("construct", 0)
    /\ ret = {}
    /\ err = ""
    /\ hist = [i \in Ids |-> [invoked |-> 0, deleted |-> 0, cancelledIdle |-> FALSE, destroyed |-> FALSE]]
    /\ cycleLog = {}
    /\ atWake = {}
    /\ retry = RetryIdle

NextList == \E c \in ListCriteria : List("request", c)

SpecList == InitList /\ [][NextList]_vars

\* ------------------------------------------------ retries.ts on its own
\* the variables of the scheduler, which the retry helpers never touch
schedulerVars ==
    <<rows, armed, clock, members, storage, tableExists, hasIdentifier,
      blocking, nextId, pc, batch, cur, wakeNow, lastOp, ret, err, hist,
      cycleLog, atWake>>

SchedulerAtRest ==
    /\ rows = {}
    /\ armed = {}
    /\ clock = 0
    /\ members = {"tick"}
    /\ storage = TRUE
    /\ tableExists = TRUE
    /\ hasIdentifier = TRUE
    /\ blocking = FALSE
    /\ nextId = 1
    /\ pc = "idle"
    /\ batch = {}
    /\ cur = {}
    /\ wakeNow = 0
    /\ lastOp = Op("construct", 0)
    /\ ret = {}
    /\ err = ""
    /\ hist = [i \in Ids |-> [invoked |-> 0, deleted |-> 0, cancelledIdle |-> FALSE, destroyed |-> FALSE]]
    /\ cycleLog = {}
    /\ atWake = {}

\* JS numbers are kept in halves, so that Math.floor has a fraction to cut:
\* the integer h stands for the number h / 2
Whole(k) == 2 * k
MathFloor(h) == h \div 2

\* JS values of a property: <<type>> or <<type, value>>
PropertyInputs ==
    {<<"undefined">>, <<"boolean", TRUE>>, <<"boolean", FALSE>>,
     <<"number", 0>>, <<"number", 1>>, <<"string", "">>, <<"string", "yes">>}

\* Boolean(value)
ToBoolean(v) ==
    CASE v[1] = "undefined" -> FALSE
      [] v[1] = "boolean" -> v[2]
      [] v[1] = "number" -> v[2] # 0
      [] v[1] = "string" -> v[2] # ""
      [] OTHER -> TRUE

\* texts are sequences of tokens
OverloadedPhrase == <<"Durable", "Object", "is", "overloaded">>
MessageInputs ==
    {<<"retry">>,
     <<"Durable", "Object", "is", "overloaded", ".", "Too", "many", "requests", "queued", ".">>,
     <<"the", "Durable", "Object", "is", "overloaded">>,
     <<"Durable", "Object", "is", "not", "overloaded">>,
     <<"durable", "object", "is", "overloaded">>}

\* a thrown value: an Error, a plain object, a string or null
ErrorValue(kind, retryable, overloaded, message) ==
    [kind |-> kind, retryable |-> retryable, overloaded |-> overloaded,
     message |-> message]

ErrorInputs ==
    {ErrorValue(k, r, o, m) : k \in {"Error", "object"}, r \in PropertyInputs,
                              o \in PropertyInputs, m \in MessageInputs}
    \cup {ErrorValue(k, <<"undefined">>, <<"undefined">>, m) :
             k \in {"string", "null"}, m \in MessageInputs}

\* String(err)
String(e) ==
    CASE e.kind = "Error" -> <<"Error", ":">> \o e.message
      [] e.kind = "object" -> <<"[object", "Object]">>
      [] e.kind = "string" -> e.message
      [] OTHER -> <<"null">>

\* msg.includes(phrase)
Includes(text, phrase) ==
    \E i \in 1..(Len(text) - Len(phrase) + 1) :
        SubSeq(text, i, i + Len(phrase) - 1) = phrase

\* variant: the property `overloaded` is not looked at
isErrorRetryableMessageOnly(e) ==
    /\ ToBoolean(e.retryable)
    /\ ~Includes(String(e), OverloadedPhrase)

\* isErrorRetryable(err)
isErrorRetryable(e) ==
    /\ ToBoolean(e.retryable)
    /\ ~ToBoolean(e.overloaded)
    /\ ~Includes(String(e), OverloadedPhrase)

\* what fn throws in the runs of tryN and tryWhile
RetryErrors ==
    {ErrorValue("Error", <<"boolean", TRUE>>, <<"undefined">>, <<"retry">>),
     ErrorValue("Error", <<"undefined">>, <<"undefined">>, <<"retry">>)}
ResultInputs == {"ok"}                      \* what fn returns
RandomInputs == {0, 1}                      \* Math.random(), in halves: 0 and 0.5
NInputs == {Whole(-1), 0, 1, Whole(1), 3, Whole(2), Whole(3)}   \* n, in halves
DelayOptionInputs == {{}, {0}, {1}, {Whole(1)}, {Whole(10)}}    \* {} is undefined
TryNIsRetryable == {"undefined", "RetryConditionNever", "isErrorRetryable"}
TryWhileIsRetryable ==
    {"RetryConditionAlways", "RetryConditionNever", "isErrorRetryable",
     "nextAttemptUpTo2"}

Options(baseDelayMs, maxDelayMs, isRetryable) ==
    [baseDelayMs |-> baseDelayMs, maxDelayMs |-> maxDelayMs,
     isRetryable |-> isRetryable]

\* value ?? fallback
OrDefault(value, fallback) == IF value = {} THEN fallback ELSE Min(value)

\* new Error(message)
NewError(message) ==
    ErrorValue("Error", <<"undefined">>, <<"undefined">>, <<message>>)

RECURSIVE Pow2(_)
Pow2(k) == IF k <= 0 THEN 1 ELSE 2 * Pow2(k - 1)

\* jitterBackoff: Math.floor(Math.random() * Math.min(2 ** attempt * base, max))
jitterBackoff(attempt, baseDelayMs, maxDelayMs, random) ==
    MathFloor(random * Min({Pow2(attempt) * baseDelayMs, maxDelayMs}))

Rejected(rt, error) ==
    [rt EXCEPT !.pc = "done", !.outcome = "rejected", !.error = <<error>>]

\* the isRetryable function a caller passed, applied to (err, nextAttempt)
UserIsRetryable(name, e, nextAttempt) ==
    CASE name = "RetryConditionNever" -> FALSE
      [] name = "isErrorRetryable" -> isErrorRetryable(e)
      [] name = "nextAttemptUpTo2" -> nextAttempt <= 2
      [] OTHER -> TRUE

\* variant: tryN stops one attempt early
IsRetryableStrict(rt, e, nextAttempt) ==
    IF rt.fn = "tryN"
    THEN nextAttempt < rt.n /\ UserIsRetryable(rt.isRetryable, e, nextAttempt)
    ELSE UserIsRetryable(rt.isRetryable, e, nextAttempt)

\* variant: the function the caller passed is not asked
IsRetryableIgnoringUser(rt, e, nextAttempt) ==
    IF rt.fn = "tryN" THEN nextAttempt <= rt.n ELSE TRUE

\* the isRetryable that tryWhile calls: the caller's, or tryN's wrapper
\* nextAttempt <= n && (options?.isRetryable?.(err, nextAttempt) ?? true)
IsRetryable(rt, e, nextAttempt) ==
    IF rt.fn = "tryN"
    THEN nextAttempt <= rt.n /\ UserIsRetryable(rt.isRetryable, e, nextAttempt)
    ELSE UserIsRetryable(rt.isRetryable, e, nextAttempt)

\* variant: the delays are not validated
tryWhileUnchecked(rt, options) ==
    [rt EXCEPT !.pc = "attempting", !.attempt = 1, !.invoked = <<1>>,
               !.baseDelayMs = MathFloor(OrDefault(options.baseDelayMs, Whole(DefaultBaseDelayMs))),
               !.maxDelayMs = MathFloor(OrDefault(options.maxDelayMs, Whole(DefaultMaxDelayMs)))]

\* tryWhile up to its first await: the options are floored and validated, then
\* fn(1) is invoked
tryWhile(rt, options) ==
    LET base == MathFloor(OrDefault(options.baseDelayMs, Whole(DefaultBaseDelayMs)))
        max == MathFloor(OrDefault(options.maxDelayMs, Whole(DefaultMaxDelayMs)))
    IN  IF base <= 0 \/ max <= 0
        THEN Rejected(rt, NewError("baseDelayMs and maxDelayMs must be greater than 0"))
        ELSE IF base >= max
        THEN Rejected(rt, NewError("baseDelayMs must be less than maxDelayMs"))
        ELSE [rt EXCEPT !.pc = "attempting", !.attempt = 1, !.invoked = <<1>>,
                        !.baseDelayMs = base, !.maxDelayMs = max]

\* tryN(n, fn, options)
TryN(n, options) ==
    /\ retry.pc \in {"idle", "done"}
    /\ LET rt == [RetryIdle EXCEPT !.fn = "tryN", !.isRetryable = options.isRetryable,
                                   !.args = <<[n |-> n,
                                               baseDelayMs |-> options.baseDelayMs,
                                               maxDelayMs |-> options.maxDelayMs]>>]
       IN  retry' = IF n <= 0
                    THEN Rejected(rt, NewError("n must be greater than 0"))
                    ELSE tryWhile([rt EXCEPT !.n = MathFloor(n)], options)
    /\ UNCHANGED schedulerVars

\* tryWhile(fn, isRetryable, options)
TryWhile(options) ==
    /\ retry.pc \in {"idle", "done"}
    /\ retry' = tryWhile([RetryIdle EXCEPT !.fn = "tryWhile",
                                           !.isRetryable = options.isRetryable,
                                           !.args = <<[baseDelayMs |-> options.baseDelayMs,
                                                       maxDelayMs |-> options.maxDelayMs]>>],
                         options)
    /\ UNCHANGED schedulerVars

\* return await fn(attempt): fn returned
FnReturns(value) ==
    /\ retry.pc = "attempting"
    /\ retry' = [retry EXCEPT !.pc = "done", !.outcome = "returned",
                              !.result = {value}]
    /\ UNCHANGED schedulerVars

\* catch (err): attempt += 1, then isRetryable(err, attempt) decides between
\* throw err and a timer of jitterBackoff(...) ms
FnThrows(e, random) ==
    /\ retry.pc = "attempting"
    /\ LET next == retry.attempt + 1
           rt == [retry EXCEPT !.attempt = next, !.thrown = Append(@, e),
                               !.verdict = {IsRetryable(retry, e, next)}]
       IN  retry' = IF ~IsRetryable(retry, e, next)
                    THEN Rejected(rt, e)
                    ELSE [rt EXCEPT !.pc = "backoff",
                                    !.delay = jitterBackoff(next, retry.baseDelayMs,
                                                            retry.maxDelayMs, random)]
    /\ UNCHANGED schedulerVars

\* the timer fired: the loop invokes fn(attempt) again
TimerFires ==
    /\ retry.pc = "backoff"
    /\ retry.attempt <= MaxAttempts
    /\ retry' = [retry EXCEPT !.pc = "attempting", !.invoked = Append(@, retry.attempt)]
    /\ UNCHANGED schedulerVars

InitRetry == SchedulerAtRest /\ retry = RetryIdle

NextRetry ==
    \/ \E n \in NInputs, b \in DelayOptionInputs, m \in DelayOptionInputs,
          i \in TryNIsRetryable : TryN(n, Options(b, m, i))
    \/ \E b \in DelayOptionInputs, m \in DelayOptionInputs,
          i \in TryWhileIsRetryable : TryWhile(Options(b, m, i))
    \/ \E v \in ResultInputs : FnReturns(v)
    \/ \E e \in RetryErrors, r \in RandomInputs : FnThrows(e, r)
    \/ TimerFires

SpecRetry == InitRetry /\ [][NextRetry]_vars

\* isErrorRetryable(err) applied to an error
Classify(e) ==
    /\ retry.pc \in {"idle", "classified"}
    /\ retry' = [RetryIdle EXCEPT !.pc = "classified", !.fn = "isErrorRetryable",
                                  !.thrown = <<e>>,
                                  !.verdict = {isErrorRetryable(e)}]
    /\ UNCHANGED schedulerVars

NextClassify == \E e \in ErrorInputs : Classify(e)

SpecClassify == InitRetry /\ [][NextClassify]_vars

\* ------------------------------------------------------ claims C1..C10
Completed ==
    pc = "idle" /\ lastOp.op \in {"schedule", "cancel", "wakeEnd"} /\ err = ""
CycleEnded == pc = "idle" /\ lastOp.op = "wakeEnd"
Logged(outcomes) == {d \in cycleLog : d.outcome \in outcomes}
Dispatched == Logged({"ok", "threw"})

\* the row was consumed according to its type: a one-shot row is gone, a
\* cron row (unless cancelled meanwhile) has a time after this wake's now
ConsumedByKind(id, type) ==
    IF type = "cron"
    THEN \A x \in rows : x.id = id => x.time > wakeNow
    ELSE id \notin RowIds(rows)

\* C1: after every completed schedule, cancel or wake cycle, if a row is
\* pending then a deadline is armed and equals the minimum fireAt of all rows
C1_MinimumInvariant ==
    (Completed /\ rows # {}) => armed = {Min({r.time : r \in rows}) * MsPerSec}

\* C2: whenever the store holds no rows, no wake deadline is armed
C2_EmptyStoreUnarmed == rows = {} => armed = {}

\* C3: the callback of a Scheduled or Delayed row is invoked at most once and
\* the row is deleted exactly once, over any sequence of operations
C3_OneShotAtMostOnce ==
    \A i \in Ids :
        /\ hist[i].invoked <= 1
        /\ hist[i].deleted <= 1
        /\ (pc = "idle" /\ hist[i].invoked = 1)
              => (hist[i].deleted = 1 /\ i \notin RowIds(rows))

\* a one-shot row was invoked and deleted in an earlier cycle, and a later
\* cycle has run to its end without visiting it
C3_Witness ==
    /\ CycleEnded
    /\ \E i \in Ids : /\ hist[i].invoked = 1
                      /\ hist[i].deleted = 1
                      /\ i \notin {d.id : d \in cycleLog}
    /\ cycleLog # {}

\* C4: right after a wake cycle that dispatched a Scheduled or Delayed row the
\* row is absent from the store, whether its callback returned or threw
C4_OneShotAbsentAfterDispatch ==
    CycleEnded =>
        \A d \in Dispatched : d.type # "cron" => d.id \notin RowIds(rows)

C4_Witness ==
    /\ CycleEnded
    /\ \E d \in cycleLog : d.type # "cron" /\ d.outcome = "threw"
    /\ \E d \in cycleLog : d.type # "cron" /\ d.outcome = "ok"

\* C5: a wake cycle at time t dispatches every row with fireAt <= t and none
\* with fireAt > t; each dispatched row is removed (one-shot) or advanced
\* (cron), and every row with fireAt > t is left as it was
C5_BatchDispatch ==
    CycleEnded =>
        /\ \A r \in atWake : r.time <= wakeNow =>
              /\ r.id \in {d.id : d \in cycleLog}
              /\ ConsumedByKind(r.id, r.type)
        /\ \A r \in atWake : r.time > wakeNow =>
              /\ r.id \notin {d.id : d \in cycleLog}
              /\ (r \in rows \/ r.id \notin RowIds(rows))

\* C6: after a Cron row is dispatched by a wake cycle with wake time t, its
\* stored fireAt is strictly greater than t, whether or not its callback threw
C6_CronMonotonic ==
    CycleEnded =>
        \A d \in Dispatched : d.type = "cron" =>
            \A x \in rows : x.id = d.id => x.time > wakeNow

C6_Witness ==
    /\ CycleEnded
    /\ \E d \in cycleLog : /\ d.type = "cron"
                           /\ d.outcome = "threw"
                           /\ d.id \in RowIds(rows)

\* C7: a wake cycle never deletes a Cron row: only cancel or destroy removes
\* it, and after any other step exactly one row has its id
C7_CronRowSurvivesWake ==
    [][\A r \in rows :
          (r.type = "cron" /\ lastOp'.op \notin {"cancel", "destroy"})
              => Cardinality({x \in rows' : x.id = r.id}) = 1]_vars

C7_Witness ==
    /\ lastOp.op = "consume"
    /\ \E r \in rows : r.id = lastOp.id /\ r.type = "cron" /\ r.time > wakeNow

\* C8: if the callback of one due row throws, the wake handler still runs to
\* its end and every other row due in that cycle is dispatched and consumed
\* according to its kind
C8_FaultIsolation ==
    (CycleEnded /\ Logged({"threw"}) # {}) =>
        \A r \in atWake : r.time <= wakeNow =>
            /\ r.id \in {d.id : d \in cycleLog}
            /\ ConsumedByKind(r.id, r.type)

\* C9: a due row whose callback name does not resolve at dispatch time is
\* still consumed according to its kind
C9_UnresolvedConsumed ==
    CycleEnded =>
        \A d \in Logged({"unresolved"}) : ConsumedByKind(d.id, d.type)

\* C10: cancel(id) for an id without a row returns false and changes neither
\* the rows nor the armed deadline
C10_CancelMissing ==
    [][(lastOp'.op = "cancel" /\ lastOp'.id \notin RowIds(rows))
          => (ret' = {[value |-> FALSE]} /\ rows' = rows /\ armed' = armed)]_vars

\* C11: cancel(id) for an id with a row removes exactly that row, returns
\* true and re-arms the deadline over the rows that remain; a row whose cancel
\* completed while no wake cycle was draining is never invoked afterwards
C11_CancelRemovesExactly ==
    [][/\ (lastOp'.op = "cancel" /\ err' = "" /\ lastOp'.id \in RowIds(rows)) =>
            /\ rows' = {r \in rows : r.id # lastOp'.id}
            /\ ret' = {[value |-> TRUE]}
            /\ LET future == {r.time : r \in {x \in rows' : x.time > FloorSec(clock)}}
               IN  IF future = {} THEN armed' = armed
                   ELSE armed' = {Min(future) * MsPerSec}
       /\ (lastOp'.op = "call" => ~hist[lastOp'.id].cancelledIdle)]_vars

\* a row was cancelled between cycles and a later cycle has dispatched
\* another row and run to its end
C11_Witness ==
    /\ CycleEnded
    /\ Dispatched # {}
    /\ \E i \in Ids : hist[i].cancelledIdle /\ hist[i].invoked = 0

\* C12: schedule with a callback that is not a string, with a name that is
\* not a callable member of the owner, or with a `when` that is neither a
\* Date, a number nor a string, throws; rows and armed deadline stay the same
C12_InvalidScheduleRejected ==
    [][(/\ lastOp'.op = "schedule"
        /\ \/ TypeOf(lastOp'.args.callback) # "string"
           \/ lastOp'.args.callback \notin members
           \/ lastOp'.args.kind \notin {"date", "number", "string"})
          => (err' # "" /\ ret' = {} /\ rows' = rows /\ armed' = armed)]_vars

\* a schedule naming a member the owner no longer has was refused while the
\* store held a row and a deadline was armed
C12_Witness ==
    /\ lastOp.op = "schedule"
    /\ lastOp.args.callback \notin members
    /\ TypeOf(lastOp.args.callback) = "string"
    /\ err # ""
    /\ rows # {}
    /\ armed # {}

\* C13: a successful schedule adds exactly one row, with a fresh id and the
\* type and time its `when` asks for (Date: that time in whole seconds;
\* number: now plus the delay; string: the next cron time after now); the
\* returned record carries the same id, type and time; scheduled into an
\* empty store with a time in the future, the armed deadline is that time
C13_ScheduleInsertsOneRow ==
    [][(lastOp'.op = "schedule" /\ err' = "") =>
          LET a == lastOp'.args
              now == FloorSec(clock)
              new == rows' \ rows
          IN  /\ Cardinality(new) = 1
              /\ rows \subseteq rows'
              /\ ret' # {}
              /\ \A r \in new :
                    /\ r.id \notin RowIds(rows)
                    /\ r.callback = a.callback
                    /\ a.kind = "date" =>
                          /\ r.type = "scheduled"
                          /\ r.time * MsPerSec <= a.when
                          /\ a.when < (r.time + 1) * MsPerSec
                    /\ a.kind = "number" =>
                          /\ r.type = "delayed"
                          /\ r.delayInSeconds = a.when
                          /\ r.time = now + a.when
                    /\ a.kind = "string" =>
                          /\ r.type = "cron"
                          /\ r.cron = a.when
                          /\ r.time > now
                          /\ r.time % CronPeriod(a.when) = 0
                          /\ r.time - CronPeriod(a.when) <= now
                    /\ a.kind \in {"date", "number", "string"}
                    /\ \A x \in ret' :
                          x.id = r.id /\ x.type = r.type /\ x.time = r.time
                    /\ (rows = {} /\ r.time > now) => armed' = {r.time * MsPerSec}]_vars

\* a Date with a fraction of a second was scheduled into an empty store and
\* the deadline is armed at its whole second
C13_Witness ==
    /\ lastOp.op = "schedule"
    /\ err = ""
    /\ lastOp.args.kind = "date"
    /\ lastOp.args.when % MsPerSec # 0
    /\ Cardinality(rows) = 1
    /\ armed = {FloorSec(lastOp.args.when) * MsPerSec}

C15_GetMissing ==
    [][(lastOp'.op = "get" /\ SqlFailure = "" /\ lastOp'.id \notin RowIds(rows))
          => (err' = "" /\ ret' = {} /\ rows' = rows /\ armed' = armed)]_vars

\* C16: list(criteria) returns exactly the rows whose id equals the given id
\* (if given), whose type equals the given type (if given) and whose time t
\* satisfies start <= t <= end for the given range, a missing start or end
\* being unbounded
C16_ListAsStated ==
    (lastOp.op = "list" /\ err = "") =>
        \A found \in ret :
            {x.id : x \in found.schedules} =
                {r.id : r \in {x \in rows :
                    /\ (lastOp.args.id = {} \/ x.id \in lastOp.args.id)
                    /\ (lastOp.args.type = {} \/ x.type \in lastOp.args.type)
                    /\ \A tr \in lastOp.args.timeRange :
                          /\ \A st \in tr.start : st <= x.time * MsPerSec
                          /\ \A en \in tr.end : x.time * MsPerSec <= en}}

\* C16, with start and end taken in whole seconds: a row is in the range when
\* the second it fires in has not ended before start and has begun by end
C16_ListWholeSeconds ==
    (lastOp.op = "list" /\ err = "") =>
        \A found \in ret :
            /\ {x.id : x \in found.schedules} =
                  {r.id : r \in {x \in rows :
                      /\ (lastOp.args.id = {} \/ x.id \in lastOp.args.id)
                      /\ (lastOp.args.type = {} \/ x.type \in lastOp.args.type)
                      /\ \A tr \in lastOp.args.timeRange :
                            /\ \A st \in tr.start : st < (x.time + 1) * MsPerSec
                            /\ \A en \in tr.end : x.time * MsPerSec <= en}}
            /\ \A x \in found.schedules : \E r \in rows :
                  [x EXCEPT !.payload = r.payload] = r

\* a range that starts in the middle of a second returned a row of that
\* second, and left out a row after its end
C16_Witness ==
    /\ lastOp.op = "list"
    /\ \E tr \in lastOp.args.timeRange :
          /\ \E st \in tr.start : st % MsPerSec # 0
          /\ \E found \in ret : \E x \in found.schedules, st \in tr.start :
                x.time * MsPerSec < st
          /\ \E r \in rows, en \in tr.end : r.time * MsPerSec > en

\* C17: a row that is due when the instance is constructed is invoked and
\* consumed according to its type by the constructor's catch-up, before the
\* first request is served and without a wake of the host
C17_CatchUpAtConstruction ==
    (blocking /\ pc = "draining" /\ batch = {}) =>
        \A r \in atWake : r.time <= wakeNow =>
            /\ r.id \in {d.id : d \in cycleLog}
            /\ ConsumedByKind(r.id, r.type)

\* C18: no schedule, cancel, get or list of a request, and no wake of the
\* host, begins before the constructor has created and migrated the table and
\* its catch-up has run to the end
C18_InitBeforeOperations ==
    [][(\/ /\ lastOp'.op \in {"schedule", "cancel", "get", "list"}
           /\ lastOp'.origin = "request"
        \/ lastOp'.op = "wake")
          => /\ ~blocking
             /\ pc # "broken"
             /\ tableExists => hasIdentifier]_vars

\* the catch-up of a construction is awaiting a callback, which has called
\* schedule, while requests are held back
C18_Witness ==
    /\ blocking
    /\ pc = "calling"
    /\ lastOp.op = "schedule"
    /\ lastOp.origin = "callback"
    /\ err = ""

\* C19: if the migration that adds the column identifier fails, the failure
\* is swallowed: construction raises no error and the scheduler keeps working
C19_MigrationFailureSwallowed ==
    (lastOp.op = "construct" /\ ~hasIdentifier) => (err = "" /\ pc # "broken")

\* C20: without storage, schedule, cancel, get and list all throw; none of
\* them returns a result
C20_NoStorageThrows ==
    (~storage /\ lastOp.op \in {"schedule", "cancel", "get", "list"})
        => (err # "" /\ ret = {})

\* C21: after destroy() the table holds no rows and no deadline is armed, and
\* no row that existed (in the table or in a fetched batch) when destroy() ran
\* is invoked afterwards
C21_DestroyClearsAll ==
    [][/\ (lastOp'.op = "destroy" => (rows' = {} /\ armed' = {}))
       /\ (lastOp'.op = "call" => ~hist[lastOp'.id].destroyed)]_vars

\* destroy() has completed during the await of a callback while the wake
\* cycle still holds a due row it had fetched
C21_Witness ==
    /\ lastOp.op = "destroy"
    /\ pc = "calling"
    /\ batch # {}
    /\ \A r \in batch : hist[r.id].destroyed

\* C22: tryN(n, fn) with n >= 1 invokes fn at most n times; when every
\* attempt throws a retryable error (n a whole number) fn is invoked exactly
\* n times, with the attempt numbers 1..n in order, and tryN then rejects
\* with the error thrown last
C22_TryNAttempts ==
    (retry.fn = "tryN" /\ \A a \in {retry.args[1]} : a.n >= Whole(1)) =>
        LET n == retry.args[1].n
            allRetryable ==
                \A k \in 1..Len(retry.thrown) :
                    UserIsRetryable(retry.isRetryable, retry.thrown[k], k + 1)
        IN  /\ Whole(Len(retry.invoked)) <= n
            /\ (/\ retry.pc = "done"
                /\ retry.outcome = "rejected"
                /\ retry.thrown # <<>>
                /\ allRetryable
                /\ n % 2 = 0)
                  => /\ Whole(Len(retry.invoked)) = n
                     /\ \A k \in 1..Len(retry.invoked) : retry.invoked[k] = k
                     /\ retry.error = <<retry.thrown[Len(retry.thrown)]>>

\* tryN(3, fn) has rejected after three attempts that all threw a retryable
\* error
C22_Witness ==
    /\ retry.fn = "tryN"
    /\ retry.pc = "done"
    /\ retry.outcome = "rejected"
    /\ retry.invoked = <<1, 2, 3>>
    /\ Len(retry.thrown) = 3
    /\ retry.isRetryable = "isErrorRetryable"

\* C23: tryN and tryWhile stop at the first attempt that succeeds or whose
\* error is not retryable: after a first success on attempt k fn has been
\* invoked exactly k times and its result is returned; when isRetryable
\* returns false for an error that error is thrown on and fn is not invoked
\* again
C23_StopsAtFirstVerdict ==
    (retry.fn \in {"tryN", "tryWhile"}) =>
        /\ retry.outcome = "returned" =>
              /\ retry.pc = "done"
              /\ Len(retry.invoked) = Len(retry.thrown) + 1
              /\ \A k \in 1..Len(retry.invoked) : retry.invoked[k] = k
              /\ retry.result \subseteq ResultInputs /\ retry.result # {}
        /\ retry.verdict = {FALSE} =>
              /\ retry.pc = "done"
              /\ retry.outcome = "rejected"
              /\ retry.error = <<retry.thrown[Len(retry.thrown)]>>
              /\ Len(retry.invoked) = Len(retry.thrown)
        /\ (retry.thrown # <<>> /\ retry.pc # "done") =>
              \A k \in 1..Len(retry.thrown) :
                  UserIsRetryable(retry.isRetryable, retry.thrown[k], k + 1)

\* tryWhile has returned the result of the third attempt after two errors
\* that were retryable
C23_Witness ==
    /\ retry.fn = "tryWhile"
    /\ retry.outcome = "returned"
    /\ retry.invoked = <<1, 2, 3>>
    /\ Len(retry.thrown) = 2
    /\ retry.isRetryable = "isErrorRetryable"

\* C24: tryN rejects without invoking fn when n <= 0, when baseDelayMs or
\* maxDelayMs is <= 0, or when baseDelayMs >= maxDelayMs
C24_TryNInvalidInputs ==
    (retry.fn = "tryN") =>
        LET a == retry.args[1]
            base == OrDefault(a.baseDelayMs, Whole(DefaultBaseDelayMs))
            max == OrDefault(a.maxDelayMs, Whole(DefaultMaxDelayMs))
        IN  (a.n <= 0 \/ base <= 0 \/ max <= 0 \/ base >= max)
                => /\ retry.pc = "done"
                   /\ retry.outcome = "rejected"
                   /\ retry.error # <<>>
                   /\ retry.invoked = <<>>

\* tryN(1, fn, { maxDelayMs: 0 }) has rejected
C24_Witness ==
    /\ retry.fn = "tryN"
    /\ retry.args[1].n = Whole(1)
    /\ retry.args[1].maxDelayMs = {0}
    /\ retry.args[1].baseDelayMs = {}
    /\ retry.outcome = "rejected"
    /\ retry.invoked = <<>>

\* C25: isErrorRetryable(err) is true exactly when err.retryable is truthy,
\* err.overloaded is not truthy and the text of the error does not contain
\* "Durable Object is overloaded"
C25_IsErrorRetryable ==
    (retry.pc = "classified") =>
        LET e == retry.thrown[1]
            falsy == {<<"undefined">>, <<"boolean", FALSE>>, <<"number", 0>>,
                      <<"string", "">>}
            contains ==
                \E i \in 1..Len(String(e)) :
                    /\ i + 3 <= Len(String(e))
                    /\ String(e)[i] = "Durable"
                    /\ String(e)[i + 1] = "Object"
                    /\ String(e)[i + 2] = "is"
                    /\ String(e)[i + 3] = "overloaded"
        IN  retry.verdict =
                {e.retryable \notin falsy /\ e.overloaded \in falsy /\ ~contains}

\* an Error that is retryable, with an overloaded property that is falsy but
\* not undefined and a message that only resembles the overloaded one, was
\* found retryable
C25_Witness ==
    /\ retry.pc = "classified"
    /\ retry.verdict = {TRUE}
    /\ retry.thrown[1].kind = "Error"
    /\ retry.thrown[1].overloaded = <<"number", 0>>
    /\ retry.thrown[1].message = <<"Durable", "Object", "is", "not", "overloaded">>

\* C26: right after the rearm at the end of schedule, cancel or a wake cycle,
\* if some row has a time after now the armed deadline is the least such
\* time, whatever was armed before
C26_RearmArmsEarliestFuture ==
    (lastOp.op \in {"schedule", "cancel", "wakeEnd"} /\ err = "") =>
        \A r \in rows : r.time > FloorSec(clock) =>
            /\ armed # {}
            /\ \A a \in armed :
                  /\ a <= r.time * MsPerSec
                  /\ \E x \in rows : x.time > FloorSec(clock) /\ a = x.time * MsPerSec

\* a later task was scheduled after an earlier one and the deadline is still
\* the earlier one's
C26_Witness ==
    /\ lastOp.op = "schedule"
    /\ err = ""
    /\ \E early \in rows, late \in rows :
          /\ late.id = lastOp.id
          /\ early.id < late.id
          /\ FloorSec(clock) < early.time
          /\ early.time < late.time
          /\ armed = {early.time * MsPerSec}

\* C27: every completed schedule, every completed cancel and every wake cycle
\* that returns (a callback may have thrown, a name may not have resolved)
\* ends with the rearm, run on the rows as its last mutation left them
C27_RearmAfterLastMutation ==
    [][/\ (\/ lastOp'.op \in {"schedule", "cancel"} /\ err' = ""
           \/ lastOp'.op = "wakeEnd")
          => LET future == {r.time : r \in {x \in rows' : x.time > FloorSec(clock')}}
             IN  IF future = {} THEN armed' = armed
                 ELSE armed' = {Min(future) * MsPerSec}
       /\ (pc \in {"draining", "calling"} /\ pc' \notin {"draining", "calling"})
          => (lastOp'.op = "wakeEnd" \/ err' # "")]_vars

\* a wake cycle in which one callback threw and another name did not resolve
\* has returned with the deadline armed for the row it advanced
C27_Witness ==
    /\ CycleEnded
    /\ Logged({"threw"}) # {}
    /\ Logged({"unresolved"}) # {}
    /\ \E d \in Logged({"threw"}) : \E r \in rows :
          r.id = d.id /\ armed = {r.time * MsPerSec}

\* C28: a rearm that follows a rearm, with no row changed and no time passed
\* in between, leaves the armed deadline as it is
C28_RearmIdempotent ==
    [][(/\ lastOp.op \in {"schedule", "cancel", "wakeEnd"} /\ err = ""
        /\ lastOp'.op = "cancel" /\ err' = ""
        /\ rows' = rows /\ clock' = clock)
          => armed' = armed]_vars

\* a cancel that found no row has run its rearm over a table with a row in the
\* future and a deadline armed
C28_Witness ==
    /\ lastOp.op = "cancel"
    /\ err = ""
    /\ lastOp.id >= nextId
    /\ armed # {}
    /\ \E r \in rows : armed = {r.time * MsPerSec} /\ r.time > FloorSec(clock)

\* C29: a wake cycle visits every row of the batch it fetched exactly once and
\* no other row, whatever schedule and cancel calls run while it awaits a
\* callback
C29_BatchExactlyOnce ==
    [][/\ lastOp'.op \in {"call", "skip"}
          => /\ lastOp'.id \in RowIds(DueRows(atWake, wakeNow))
             /\ lastOp'.id \notin {d.id : d \in cycleLog}
       /\ lastOp'.op = "wakeEnd"
          => {d.id : d \in cycleLog'} = RowIds(DueRows(atWake', wakeNow'))]_vars

\* a wake cycle has returned; a row that was added during it is due and was
\* not visited, and a row of its batch that was cancelled during it was
C29_Witness ==
    /\ CycleEnded
    /\ \E r \in rows : r.id \notin RowIds(atWake) /\ r.time <= wakeNow
    /\ \E d \in cycleLog : d.type = "cron" /\ d.id \notin RowIds(rows)

\* C30: a wake cycle terminates when its callbacks do, and it invokes at most
\* one callback per row that was due when it started
C30_WakeCycleTerminates ==
    /\ (pc \in {"draining", "calling"}) ~> (pc \in {"idle", "broken"})
    /\ [](Cardinality({d.id : d \in Dispatched} \cup {r.id : r \in cur})
             <= Cardinality(DueRows(atWake, wakeNow)))

\* a callback has scheduled a task that is due at once while the cycle that
\* invoked it is still running
C30_Witness ==
    /\ pc = "calling"
    /\ lastOp.op = "schedule"
    /\ err = ""
    /\ \E r \in rows : r.id = lastOp.id /\ r.time <= wakeNow

\* ----------------------------------------------------- claims C31..C39
\* the last value the clock takes, and whether a row comes due by then
LastClockMs == (MaxClockMs \div TickMs) * TickMs
ComesDue(r) == r.time <= FloorSec(LastClockMs)

\* the callback of the row with this id is being invoked
Invoking(i) == i \in RowIds(cur)

\* C31: when time advances and the host delivers every armed alarm, every
\* stored row that comes due and whose callback resolves is eventually
\* invoked, unless it is cancelled or destroyed first; rows that are due
\* already when they are scheduled and rows that come due during a running
\* wake cycle are included
C31_NoMissedWakeup ==
    \A i \in Ids :
        (\E r \in rows : r.id = i /\ ComesDue(r) /\ Resolves(members, r.callback))
            ~> \/ Invoking(i)
               \/ i \notin RowIds(rows)
               \/ \E r \in rows : r.id = i /\ ~Resolves(members, r.callback)

\* C32: the step of a wake cycle that advances a cron row changes only the
\* time of that row: its id, callback, payload, cron expression, created_at
\* and identifier (and every other column) stay, no row is added or removed,
\* and every other row is left as it was
C32_CronAdvanceOnlyTime ==
    [][(lastOp'.op = "consume" /\ \E row \in cur : row.type = "cron") =>
          /\ RowIds(rows') = RowIds(rows)
          /\ Cardinality(rows') = Cardinality(rows)
          /\ \A r \in rows :
                IF r.id = lastOp'.id
                THEN \E x \in rows' :
                        /\ x.id = r.id
                        /\ x.callback = r.callback
                        /\ x.payload = r.payload
                        /\ x.cron = r.cron
                        /\ x.created_at = r.created_at
                        /\ x.identifier = r.identifier
                        /\ [x EXCEPT !.time = r.time] = r
                ELSE r \in rows']_vars

\* a cron row inserted in second 0 has just been advanced past the time of
\* its wake while a second row is stored beside it
C32_Witness ==
    /\ lastOp.op = "consume"
    /\ Cardinality(rows) = 2
    /\ \E r \in rows : /\ r.id = lastOp.id
                       /\ r.type = "cron"
                       /\ r.created_at = 0
                       /\ r.time > wakeNow

\* C33: getSchedule and getSchedules change neither the table nor the armed
\* deadline; a row appears only by a schedule, which removes and alters none,
\* disappears only by a cancel, by the consume step of a wake cycle or by
\* destroy(), and is altered only by the consume step of a wake cycle
C33_ReadsChangeNothing ==
    [][/\ lastOp'.op \in {"get", "list"} =>
             /\ rows' = rows
             /\ armed' = armed
             /\ tableExists' = tableExists
             /\ hasIdentifier' = hasIdentifier
       /\ rows' # rows =>
             lastOp'.op \in {"schedule", "cancel", "consume", "destroy"}
       /\ lastOp'.op = "schedule" => rows \subseteq rows'
       /\ lastOp'.op \in {"cancel", "destroy"} => rows' \subseteq rows
       /\ lastOp'.op = "consume" =>
             \A x \in rows' \ rows : x.type = "cron" /\ x.id \in RowIds(rows)]_vars

\* getSchedules has returned stored rows to a request made during the await
\* of a callback, with a deadline armed
C33_Witness ==
    /\ lastOp.op = "list"
    /\ pc = "calling"
    /\ armed # {}
    /\ \E found \in ret : found.schedules # {}

\* C34: no two rows of the table have the same id, and a schedule that goes
\* through adds exactly one row, under an id no row has and none had before,
\* and leaves every row that was stored as it was
C34_UniqueFreshIds ==
    /\ [](\A r1 \in rows, r2 \in rows : r1.id = r2.id => r1 = r2)
    /\ [](\A r \in rows : r.id < nextId)
    /\ [][(lastOp'.op = "schedule" /\ err' = "") =>
             /\ rows \subseteq rows'
             /\ Cardinality(rows' \ rows) = 1
             /\ \A r \in rows' \ rows : r.id = nextId /\ r.id = lastOp'.id
             /\ nextId' > nextId]_vars

\* a second task has been scheduled beside a stored one, both are in the table
C34_Witness ==
    /\ lastOp.op = "schedule"
    /\ err = ""
    /\ Cardinality(rows) = 2
    /\ \E r \in rows : r.id < lastOp.id

\* C35: a construction on storage that has the table keeps every stored row:
\* with the column identifier present nothing is changed; with the column
\* missing it is added, no row changes in another column, and every row stored
\* before then reads 'default' in it, which is what getSchedule, getSchedules
\* and the callbacks of alarm() are handed afterwards
C35_InitIdempotentOnSchema ==
    /\ [][(lastOp'.op = "construct" /\ tableExists) =>
             /\ tableExists'
             /\ RowIds(rows') = RowIds(rows)
             /\ Cardinality(rows') = Cardinality(rows)
             /\ \A r \in rows : \E x \in rows' : [x EXCEPT !.identifier = r.identifier] = r
             /\ hasIdentifier => (hasIdentifier' /\ rows' = rows)
             /\ (~hasIdentifier /\ hasIdentifier') =>
                   \A x \in rows' : x.identifier = "default"]_vars
    /\ [](\A g \in ret : (lastOp.op = "get" /\ err = "") => g.identifier # NoColumn)
    /\ [](\A found \in ret : lastOp.op = "list" =>
             \A g \in found.schedules : g.identifier # NoColumn)
    /\ [](\A row \in cur : row.identifier # NoColumn)

\* getSchedule has returned, with the default identifier, a row of a table
\* that had no column identifier before the construction
C35_Witness ==
    /\ lastOp.op = "get"
    /\ err = ""
    /\ \E g \in ret : g.identifier = "default"

\* C36: Actor.alarm() dispatches no row before onAlarm() has returned: while
\* the hook runs no row is visited, consumed or rearmed for, and the cycle of a
\* wake begins at the return of the hook; if the hook throws, the wake ends
\* there with no row invoked or changed and the deadline left as it was
C36_OnAlarmBeforeDispatch ==
    [][/\ pc = "hook" => lastOp'.op \notin {"call", "skip", "consume", "wakeEnd"}
       /\ lastOp'.op = "wake" => pc = "hook"
       /\ lastOp'.op = "wakeFailed" =>
             /\ pc = "hook"
             /\ pc' = "idle"
             /\ batch' = {}
             /\ cur' = {}
             /\ rows' = rows
             /\ armed' = armed
             /\ hist' = hist]_vars

\* the hook has thrown while a row was due: the row is still stored and no
\* deadline is armed
C36_Witness ==
    /\ lastOp.op = "wakeFailed"
    /\ armed = {}
    /\ \E r \in rows : r.time <= FloorSec(clock)

\* C37: whenever a callback is invoked, by the cycle of a wake or by the
\* catch-up of a construction, the time in whole seconds has reached the time
\* of its row, as fetched and as stored
C37_NoEarlyInvocation ==
    [][lastOp'.op = "call" =>
          \A row \in cur' :
              /\ row.time <= wakeNow
              /\ row.time <= FloorSec(clock')
              /\ \A x \in rows' : x.id = row.id => x.time <= FloorSec(clock')]_vars

\* a callback is being invoked while another stored row, whose time has not
\* come, is not part of the batch
C37_Witness ==
    /\ lastOp.op = "call"
    /\ \E r \in rows : /\ r.time > FloorSec(clock)
                       /\ r.id \notin RowIds(cur \cup batch)

\* C38: a cycle of alarm() whose query finds no due row takes no step but its
\* end: it visits and invokes nothing, leaves every row as it was, and its end
\* does nothing but the rearm
C38_EmptyWakeOnlyRearms ==
    [][/\ (pc = "draining" /\ DueRows(atWake, wakeNow) = {}) =>
             /\ lastOp'.op \in {"tick", "wakeEnd"}
             /\ rows' = rows
             /\ hist' = hist
       /\ (lastOp'.op = "wakeEnd" /\ DueRows(atWake, wakeNow) = {}) =>
             /\ cycleLog' = {}
             /\ rows' = atWake
             /\ armed' = scheduleNextAlarm(armed, rows, clock)]_vars

\* a cycle that found nothing due has ended after a row was cancelled without
\* having been invoked; a row of a later time is stored and armed for
C38_Witness ==
    /\ lastOp.op = "wakeEnd"
    /\ pc = "idle"
    /\ cycleLog = {}
    /\ DueRows(atWake, wakeNow) = {}
    /\ rows # {}
    /\ armed # {}
    /\ \E i \in Ids : hist[i].cancelledIdle /\ hist[i].invoked = 0

\* C39: in one cycle of alarm() a due cron row is invoked once, not once per
\* occurrence that has passed: it is not invoked again after it was visited,
\* and at the end of the cycle every cron row that was due has been invoked.
\* The time it is advanced to is the first occurrence after the time at which
\* its callback has settled, whatever time the row had before
C39_CronOncePerCycle ==
    /\ [][(lastOp'.op = "call" /\ \E row \in cur' : row.type = "cron") =>
             lastOp'.id \notin {d.id : d \in cycleLog}]_vars
    /\ [][(lastOp'.op = "consume" /\ \E row \in cur : row.type = "cron") =>
             \A x \in rows' : x.id = lastOp'.id =>
                 /\ x.time > FloorSec(clock')
                 /\ x.time - CronPeriod(x.cron) <= FloorSec(clock')
                 /\ x.time % CronPeriod(x.cron) = 0]_vars
    /\ [](CycleEnded =>
             \A r \in atWake :
                 (r.type = "cron" /\ r.time <= wakeNow /\ Resolves(members, r.callback))
                     => r.id \in {d.id : d \in Dispatched})

\* a cron row of every second was invoked once by a cycle; its callback
\* settled after a further occurrence had passed, and the row is advanced
\* past the occurrence that follows the time it had and past the one that
\* follows the wake
C39_Witness ==
    /\ lastOp.op = "consume"
    /\ \E r \in rows, o \in atWake :
          /\ r.id = lastOp.id
          /\ o.id = r.id
          /\ r.type = "cron"
          /\ o.time <= wakeNow
          /\ r.time > o.time + CronPeriod(r.cron)
          /\ r.time > wakeNow + CronPeriod(r.cron)

====
